---- MODULE Spec2Model ----
(***************************************************************************)
(* A model of src/cli.ts: the create, delete and update commands that      *)
(* synchronise local custom-object schema files with the remote schema     *)
(* registry.  One action is one stretch of code between two awaited HTTP   *)
(* requests; the outcome of every request (resolved or rejected) is chosen *)
(* by the remote service.                                                  *)
(***************************************************************************)
EXTENDS Integers, Sequences, FiniteSets, TLC

VARIABLES
    cmd,              \* the command given to commander: "create", "delete", "update"
    files,            \* objectTypes: the glob's files, each [objectType, schema]
    remote,           \* the registry: objectTypeId -> [name, properties, state]
    nextId,           \* the registry's counter of assigned objectTypeIds
    meta,             \* the SchemaIndex of the running command
    pc,               \* where the command's async flow stands
    failure,          \* the error the command's promise rejected with, "" for none
    i,                \* index of the current file in the for-of loop over objectTypes
    j,                \* index in the current inner loop (properties, associations)
    allAssociations,  \* createSchemas: the accumulated association requests
    updatedProperties,\* updateSchema: the two picked property lists
    currentProperties,
    toDelete,         \* updateSchema: the three lists it computed
    toCreate,
    toUpdate,
    requests,         \* every HTTP request issued so far, with its outcome
    console,          \* the lines written by console.log
    run,              \* number of the command's invocation (1 = first)
    optA,             \* inputs and result of the comparison functions when
    optB,             \*   they are exercised on their own
    cmpOut

vars == <<cmd, files, remote, nextId, meta, pc, failure, i, j, allAssociations,
          updatedProperties, currentProperties, toDelete, toCreate, toUpdate, requests, console, run, optA, optB, cmpOut>>

flowVars == <<cmd, files, remote, nextId, meta, pc, failure, i, j, allAssociations,
              updatedProperties, currentProperties, toDelete, toCreate, toUpdate, requests, console, run>>

cmpVars == <<optA, optB, cmpOut>>

(***************************************************************************)
(* Bounds of the model.                                                    *)
(***************************************************************************)
MaxProps == 2      \* longest property list of a local file or a remote record
MaxOpts  == 2      \* longest option list

(***************************************************************************)
(* Strings.                                                                *)
(***************************************************************************)
\* String.prototype.includes
Includes(s, sub) ==
    \E n \in 1..(Len(s) - Len(sub) + 1) : SubSeq(s, n, n + Len(sub) - 1) = sub

\* String.prototype.startsWith (used by the properties only, not by the code)
StartsWith(s, sub) ==
    Len(s) >= Len(sub) /\ SubSeq(s, 1, Len(sub)) = sub

Range(s) == { s[n] : n \in 1..Len(s) }

\* all sequences over S of length at most n
SeqsUpTo(S, n) == UNION { [1..k -> S] : k \in 0..n }

(***************************************************************************)
(* Property definitions.  A property is an object with a name and an open  *)
(* set of further keys; the model has a primitive-valued key, label, and   *)
(* an array-valued key, options.  keys lists the keys the object has, in   *)
(* the order of Object.keys; an absent key reads as undefined.             *)
(***************************************************************************)
HasKey(p, k) == k \in Range(p.keys)

Prop(n, ks, l, o) == [name |-> n, keys |-> ks, label |-> l, options |-> o]

\* Array.prototype.find by name: the index of the first match, 0 for undefined
FindByName(props, name) ==
    IF \E n \in 1..Len(props) : props[n].name = name
    THEN CHOOSE n \in 1..Len(props) :
            /\ props[n].name = name
            /\ \A m \in 1..(n - 1) : props[m].name # name
    ELSE 0

(***************************************************************************)
(* The reconciliation functions of updateSchema.                           *)
(***************************************************************************)
shouldContainAll(a, b) ==
    \A x \in 1..Len(a) :
        \E y \in 1..Len(b) : b[y].label = a[x].label /\ b[y].value = a[x].value

\* a variant that compares the two lists position by position
validateOptions_Ordered(existingOptions, currentOptions) ==
    existingOptions = currentOptions

\* a variant that checks one inclusion only
validateOptions_OneWay(existingOptions, currentOptions) ==
    shouldContainAll(existingOptions, currentOptions)

validateOptions(existingOptions, currentOptions) ==
    /\ shouldContainAll(existingOptions, currentOptions)
    /\ shouldContainAll(currentOptions, existingOptions)

\* a variant that knows one of the two markers only
IsPlatformManaged_OnlyHubspot(name) == Includes(name, "hubspot_")

\* the test of the toDelete filter on a property name
IsPlatformManaged(name) == Includes(name, "hs_") \/ Includes(name, "hubspot_")

\* One step of the reduce over Object.keys(updatedProperty): "changed" for true,
\* "same" for false, "throw" for the TypeError of reading .find or .every of a
\* value that is no array (validateOptions on an undefined existing field).
FieldChanged(updatedProperty, existingProperty, curr) ==
    IF curr = "options"
    THEN IF HasKey(existingProperty, "options")
         THEN IF validateOptions(updatedProperty.options, existingProperty.options)
              THEN "same" ELSE "changed"
         ELSE "throw"
    ELSE IF HasKey(existingProperty, curr) /\ updatedProperty[curr] = existingProperty[curr]
         THEN "same" ELSE "changed"

\* The reduce: once acc is true the later keys are not looked at.
RECURSIVE ReduceKeys(_, _, _)
ReduceKeys(updatedProperty, existingProperty, n) ==
    IF n > Len(updatedProperty.keys) THEN "same"
    ELSE LET r == FieldChanged(updatedProperty, existingProperty, updatedProperty.keys[n])
         IN  IF r = "same" THEN ReduceKeys(updatedProperty, existingProperty, n + 1) ELSE r

\* The toUpdate filter's callback on one updated property.
PropertyChanged(updatedProperty, current) ==
    LET e == FindByName(current, updatedProperty.name)
    IN  IF e = 0 THEN "same" ELSE ReduceKeys(updatedProperty, current[e], 1)

ComputeToDelete(updated, current) ==
    SelectSeq(current,
              LAMBDA p : ~IsPlatformManaged(p.name)
                         /\ FindByName(updated, p.name) = 0)

ComputeToCreate(updated, current) ==
    SelectSeq(updated,
              LAMBDA p : FindByName(current, p.name) = 0)

\* the filter throws as soon as its callback throws on one element
ToUpdateThrows(updated, current) ==
    \E n \in 1..Len(updated) :
        PropertyChanged(updated[n], current) = "throw"

ComputeToUpdate(updated, current) ==
    SelectSeq(updated,
              LAMBDA p : PropertyChanged(p, current) = "changed")

(***************************************************************************)
(* Objects and pick.  An object carries the set of keys it has; a deleted  *)
(* key leaves its slot at the value Undefined.                             *)
(***************************************************************************)
Undefined == <<>>

pickResult(obj, key, def) == IF key \in obj.keys THEN obj[key] ELSE def

\* a variant that leaves the key on the object
pickRest_Keeps(obj, key) == obj

pickRest(obj, key) == [obj EXCEPT !.keys = @ \ {key}, ![key] = Undefined]

LocalSchema(n, props) ==
    [keys |-> {"name", "properties"}, name |-> n, properties |-> props,
     associations |-> Undefined]

(***************************************************************************)
(* The remote registry and the HTTP requests.                              *)
(***************************************************************************)
EmptyMap == [x \in {} |-> x]

NoBody == [keys |-> {}]

\* a request with its outcome: ok when the promise resolved, data the response body
Req(method, url, body, ok, data) ==
    [method |-> method, url |-> url, body |-> body, ok |-> ok, data |-> data, run |-> run]

\* URLs are kept as their path segments
SchemasUrl == <<"crm", "v3", "schemas">>

PropertiesUrl(objectTypeId) == <<"properties", "v2", objectTypeId, "properties">>

NamedPropertyUrl(objectTypeId, name) ==
    <<"properties", "v2", objectTypeId, "properties", "named", name>>

LiveIds == { id \in DOMAIN remote : remote[id].state = "live" }

\* GET /crm/v3/schemas followed by keyBy(data.results, "name")
SchemaIndex ==
    [n \in { remote[id].name : id \in LiveIds } |->
        LET id == CHOOSE x \in LiveIds : remote[x].name = n
        IN  [keys |-> {"objectTypeId", "name", "properties"},
             objectTypeId |-> id, name |-> n, properties |-> remote[id].properties]]

\* PATCH: the fields of the body replace those of the stored property
MergeProperty(stored, body) ==
    [name    |-> stored.name,
     keys    |-> stored.keys \o SelectSeq(body.keys, LAMBDA k : ~HasKey(stored, k)),
     label   |-> IF HasKey(body, "label") THEN body.label ELSE stored.label,
     options |-> IF HasKey(body, "options") THEN body.options ELSE stored.options]

RemoteDeleteProperty(objectTypeId, name) ==
    IF objectTypeId \in DOMAIN remote
    THEN [remote EXCEPT ![objectTypeId].properties =
              SelectSeq(@, LAMBDA p : p.name # name)]
    ELSE remote

RemoteCreateProperty(objectTypeId, body) ==
    IF objectTypeId \in DOMAIN remote
    THEN [remote EXCEPT ![objectTypeId].properties = Append(@, body)]
    ELSE remote

RemoteUpdateProperty(objectTypeId, name, body) ==
    IF objectTypeId \in DOMAIN remote
    THEN [remote EXCEPT ![objectTypeId].properties =
              [n \in 1..Len(@) |-> IF @[n].name = name THEN MergeProperty(@[n], body)
                                   ELSE @[n]]]
    ELSE remote

(***************************************************************************)
(* getExistingSchemas, the first statement of every command.  A rejected   *)
(* GET is not caught: the command's promise rejects and the process ends.  *)
(***************************************************************************)
getExistingSchemas ==
    /\ pc = "start"
    /\ \E ok \in BOOLEAN :
         /\ requests' = Append(requests, Req("GET", SchemasUrl, NoBody, ok,
                                          IF ok THEN SchemaIndex ELSE NoBody))
         /\ IF ok
            THEN meta' = SchemaIndex /\ pc' = "loop" /\ i' = 1 /\ j' = 1
                 /\ failure' = failure
            ELSE meta' = meta /\ pc' = "crashed" /\ i' = i /\ j' = j
                 /\ failure' = "RequestError"
    /\ UNCHANGED <<cmd, files, remote, nextId, allAssociations, updatedProperties,
                   currentProperties, toDelete, toCreate, toUpdate, console, run, cmpVars>>

(***************************************************************************)
(* updateSchemas and updateSchema.                                         *)
(***************************************************************************)
\* a variant that lets the create loop come before the delete loop
FirstLoop_CreateFirst(td, tc, tu) ==
    IF tc # <<>> THEN "creating"
    ELSE IF td # <<>> THEN "deleting"
    ELSE IF tu # <<>> THEN "patching"
    ELSE "loop"

\* the loop of updateSchema that has the next request to issue, "loop" when none has
FirstLoop(td, tc, tu) ==
    IF td # <<>> THEN "deleting"
    ELSE IF tc # <<>> THEN "creating"
    ELSE IF tu # <<>> THEN "patching"
    ELSE "loop"

\* a variant that ends the command at the file the index has no record of
updateSkip_Stops ==
    /\ pc = "loop" /\ cmd = "update" /\ i <= Len(files)
    /\ files[i].objectType \notin DOMAIN meta
    /\ pc' = "crashed" /\ failure' = "TypeError"
    /\ UNCHANGED <<cmd, files, remote, nextId, meta, i, j, allAssociations,
                   updatedProperties, currentProperties, toDelete, toCreate, toUpdate,
                   requests, console, run, cmpVars>>

\* the file is not in the index: log and continue
updateSkip ==
    /\ pc = "loop" /\ cmd = "update" /\ i <= Len(files)
    /\ files[i].objectType \notin DOMAIN meta
    /\ console' = Append(console, "Object Type " \o files[i].objectType
                                     \o " does not exist to be updated.")
    /\ i' = i + 1
    /\ UNCHANGED <<cmd, files, remote, nextId, meta, pc, failure, j, allAssociations,
                   updatedProperties,
                   currentProperties, toDelete, toCreate, toUpdate, requests, run, cmpVars>>

\* updateSchema up to its first await: the two picks and the three filters
updateSchema ==
    /\ pc = "loop" /\ cmd = "update" /\ i <= Len(files)
    /\ files[i].objectType \in DOMAIN meta
    /\ LET objectType == files[i].objectType
           up == pickResult(files[i].schema, "properties", Undefined)
           cp == pickResult(meta[objectType], "properties", Undefined)
           td == ComputeToDelete(up, cp)
           tc == ComputeToCreate(up, cp)
           tu == ComputeToUpdate(up, cp)
       IN  /\ meta' = [meta EXCEPT ![objectType] = pickRest(@, "properties")]
           /\ updatedProperties' = up /\ currentProperties' = cp
           /\ toDelete' = td /\ toCreate' = tc
           /\ IF ToUpdateThrows(up, cp)
              THEN /\ pc' = "crashed" /\ failure' = "TypeError"
                   /\ UNCHANGED <<i, j, toUpdate>>
              ELSE /\ toUpdate' = tu /\ failure' = failure
                   /\ pc' = FirstLoop(td, tc, tu)
                   /\ j' = 1
                   /\ i' = IF FirstLoop(td, tc, tu) = "loop" THEN i + 1 ELSE i
    /\ UNCHANGED <<cmd, files, remote, nextId, allAssociations, requests, console,
                   run, cmpVars>>

\* a variant that keeps to the record of the first file
currentSchema_First == meta[files[1].objectType]

currentSchema == meta[files[i].objectType]

\* a variant in which a rejected DELETE is caught and the loop goes on
deleteProperty_Caught ==
    /\ pc = "deleting"
    /\ LET toDeleteProperty == toDelete[j]
           id == currentSchema.objectTypeId
           nxt == IF j < Len(toDelete) THEN "deleting" ELSE FirstLoop(<<>>, toCreate, toUpdate)
       IN  /\ console' = Append(console, "Deleting property " \o toDeleteProperty.name
                                        \o " on " \o currentSchema.name)
           /\ \E ok \in BOOLEAN :
                /\ requests' = Append(requests,
                       Req("DELETE", NamedPropertyUrl(id, toDeleteProperty.name), NoBody, ok, NoBody))
                /\ remote' = IF ok THEN RemoteDeleteProperty(id, toDeleteProperty.name) ELSE remote
           /\ pc' = nxt
           /\ j' = IF nxt = "deleting" THEN j + 1 ELSE 1
           /\ i' = IF nxt = "loop" THEN i + 1 ELSE i
    /\ UNCHANGED <<cmd, files, nextId, meta, failure, allAssociations, updatedProperties,
                   currentProperties, toDelete, toCreate, toUpdate, run, cmpVars>>

\* one iteration of the loop over toDelete; a rejected DELETE is not caught
deleteProperty ==
    /\ pc = "deleting"
    /\ LET toDeleteProperty == toDelete[j]
           id == currentSchema.objectTypeId
           nxt == IF j < Len(toDelete) THEN "deleting" ELSE FirstLoop(<<>>, toCreate, toUpdate)
       IN  /\ console' = Append(console, "Deleting property " \o toDeleteProperty.name
                                        \o " on " \o currentSchema.name)
           /\ \E ok \in BOOLEAN :
                /\ requests' = Append(requests,
                       Req("DELETE", NamedPropertyUrl(id, toDeleteProperty.name), NoBody, ok, NoBody))
                /\ IF ok
                   THEN /\ remote' = RemoteDeleteProperty(id, toDeleteProperty.name)
                        /\ pc' = nxt
                        /\ j' = IF nxt = "deleting" THEN j + 1 ELSE 1
                        /\ i' = IF nxt = "loop" THEN i + 1 ELSE i
                        /\ failure' = failure
                   ELSE /\ pc' = "crashed" /\ failure' = "RequestError"
                        /\ UNCHANGED <<remote, i, j>>
    /\ UNCHANGED <<cmd, files, nextId, meta, allAssociations, updatedProperties,
                   currentProperties, toDelete, toCreate, toUpdate, run, cmpVars>>

\* one iteration of the loop over toCreate; a rejected POST is not caught
createProperty ==
    /\ pc = "creating"
    /\ LET toCreateProperty == toCreate[j]
           id == currentSchema.objectTypeId
           nxt == IF j < Len(toCreate) THEN "creating" ELSE FirstLoop(<<>>, <<>>, toUpdate)
       IN  /\ console' = Append(console, "Creating property " \o toCreateProperty.name
                                        \o " on " \o currentSchema.name)
           /\ \E ok \in BOOLEAN :
                /\ requests' = Append(requests,
                       Req("POST", PropertiesUrl(id), toCreateProperty, ok, NoBody))
                /\ IF ok
                   THEN /\ remote' = RemoteCreateProperty(id, toCreateProperty)
                        /\ pc' = nxt
                        /\ j' = IF nxt = "creating" THEN j + 1 ELSE 1
                        /\ i' = IF nxt = "loop" THEN i + 1 ELSE i
                        /\ failure' = failure
                   ELSE /\ pc' = "crashed" /\ failure' = "RequestError"
                        /\ UNCHANGED <<remote, i, j>>
    /\ UNCHANGED <<cmd, files, nextId, meta, allAssociations, updatedProperties,
                   currentProperties, toDelete, toCreate, toUpdate, run, cmpVars>>

\* a variant in which a rejected PATCH is not caught
patchProperty_Propagates ==
    /\ pc = "patching"
    /\ LET toUpdateProperty == toUpdate[j]
           id == currentSchema.objectTypeId
           nxt == IF j < Len(toUpdate) THEN "patching" ELSE "loop"
       IN  \E ok \in BOOLEAN :
             /\ requests' = Append(requests,
                    Req("PATCH", NamedPropertyUrl(id, toUpdateProperty.name),
                        toUpdateProperty, ok, NoBody))
             /\ console' = Append(console, "Updating property " \o toUpdateProperty.name
                                          \o " on " \o currentSchema.name)
             /\ IF ok
                THEN /\ remote' = RemoteUpdateProperty(id, toUpdateProperty.name, toUpdateProperty)
                     /\ pc' = nxt
                     /\ j' = IF nxt = "patching" THEN j + 1 ELSE 1
                     /\ i' = IF nxt = "loop" THEN i + 1 ELSE i
                     /\ failure' = failure
                ELSE /\ pc' = "crashed" /\ failure' = "RequestError"
                     /\ UNCHANGED <<remote, i, j>>
    /\ UNCHANGED <<cmd, files, nextId, meta, allAssociations, updatedProperties,
                   currentProperties, toDelete, toCreate, toUpdate, run, cmpVars>>

\* one iteration of the loop over toUpdate; a rejected PATCH is caught and logged
patchProperty ==
    /\ pc = "patching"
    /\ LET toUpdateProperty == toUpdate[j]
           id == currentSchema.objectTypeId
           nxt == IF j < Len(toUpdate) THEN "patching" ELSE "loop"
       IN  \E ok \in BOOLEAN :
             /\ requests' = Append(requests,
                    Req("PATCH", NamedPropertyUrl(id, toUpdateProperty.name),
                        toUpdateProperty, ok, NoBody))
             /\ remote' = IF ok
                          THEN RemoteUpdateProperty(id, toUpdateProperty.name, toUpdateProperty)
                          ELSE remote
             /\ console' = Append(console, "Updating property " \o toUpdateProperty.name
                                          \o " on " \o currentSchema.name)
                             \o (IF ok THEN <<>> ELSE <<"error">>)
             /\ pc' = nxt
             /\ j' = IF nxt = "patching" THEN j + 1 ELSE 1
             /\ i' = IF nxt = "loop" THEN i + 1 ELSE i
    /\ UNCHANGED <<cmd, files, nextId, meta, failure, allAssociations, updatedProperties,
                   currentProperties, toDelete, toCreate, toUpdate, run, cmpVars>>

\* the for-of loop over objectTypes is exhausted: the command's promise resolves
finish ==
    /\ pc = "loop" /\ i > Len(files)
    /\ cmd = "create" => j > Len(allAssociations)
    /\ pc' = "done"
    /\ UNCHANGED <<cmd, files, remote, nextId, meta, failure, i, j, allAssociations, updatedProperties,
                   currentProperties, toDelete, toCreate, toUpdate, requests, console, run,
                   cmpVars>>

\* the same command line is run again: a new process, the same files, the
\* registry as the earlier run left it
rerun ==
    /\ pc \in {"done", "crashed"} /\ run = 1
    /\ run' = run + 1
    /\ pc' = "start" /\ failure' = "" /\ meta' = EmptyMap /\ i' = 0 /\ j' = 0
    /\ allAssociations' = <<>> /\ updatedProperties' = <<>> /\ currentProperties' = <<>>
    /\ toDelete' = <<>> /\ toCreate' = <<>> /\ toUpdate' = <<>>
    /\ UNCHANGED <<cmd, files, remote, nextId, requests, console, cmpVars>>

(***************************************************************************)
(* createSchemas, createSchema and createAssociation.                      *)
(***************************************************************************)
\* the null that createSchema returns from its catch
Null == ""

SchemaUrl(objectTypeId) == <<"crm", "v3", "schemas", objectTypeId>>

AssociationsUrl(objectTypeId) == <<"crm", "v3", "schemas", objectTypeId, "associations">>

PurgeUrl(objectTypeId) == <<"crm", "v3", "schemas", objectTypeId, "purge">>

\* the id the registry assigns to its n-th object type
AssignedId(n) == "2-" \o ToString(n)

\* the registry keeps names unique: a create under a live name is rejected
CreateOutcomes(name) ==
    IF \E id \in LiveIds : remote[id].name = name THEN {FALSE} ELSE BOOLEAN

\* the association objects pushed for one file
AssociationsOf(objectType, targets) ==
    [n \in 1..Len(targets) |->
        [toObjectTypeId   |-> targets[n],
         fromObjectTypeId |-> objectType,
         name             |-> objectType \o "_to_" \o targets[n]]]

\* a variant that records the entry whatever createSchema returned
RecordIfCreated_Always(index, objectType, objectTypeId) ==
    (objectType :> [keys |-> {"objectTypeId"}, objectTypeId |-> objectTypeId,
                    name |-> "", properties |-> Undefined]) @@ index

\* if (objectTypeId) meta[objectType] = { objectTypeId }
RecordIfCreated(index, objectType, objectTypeId) ==
    IF objectTypeId # Null
    THEN (objectType :> [keys |-> {"objectTypeId"}, objectTypeId |-> objectTypeId,
                         name |-> "", properties |-> Undefined]) @@ index
    ELSE index

\* a variant that passes every identifier through
Resolve_PassThrough(index, identifier) == identifier

\* get(meta, `${identifier}.objectTypeId`, identifier)
Resolve(index, identifier) ==
    IF identifier \in DOMAIN index /\ "objectTypeId" \in index[identifier].keys
    THEN index[identifier].objectTypeId
    ELSE identifier

\* a variant that lets the association loop start after the first file
AssociationsDue_AfterFirst(k) == k > 1

\* the loop over allAssociations stands after the loop over objectTypes
AssociationsDue(k) == k > Len(files)

\* one iteration of the loop over objectTypes: readJSON, pick, createSchema
createSchema ==
    /\ pc = "loop" /\ cmd = "create" /\ i <= Len(files)
    /\ LET objectType   == files[i].objectType
           loaded       == files[i].schema
           targets      == pickResult(loaded, "associations", <<>>)
           objectSchema == pickRest(loaded, "associations")
       IN  /\ allAssociations' = allAssociations \o AssociationsOf(objectType, targets)
           /\ \E ok \in CreateOutcomes(objectSchema.name) :
                LET objectTypeId == IF ok THEN AssignedId(nextId) ELSE Null
                IN  /\ requests' = Append(requests,
                           Req("POST", SchemasUrl, objectSchema, ok,
                               IF ok THEN [objectTypeId |-> objectTypeId] ELSE NoBody))
                    /\ remote' = IF ok
                                 THEN (objectTypeId :>
                                         [name |-> objectSchema.name,
                                          properties |-> objectSchema.properties,
                                          state |-> "live"]) @@ remote
                                 ELSE remote
                    /\ nextId' = IF ok THEN nextId + 1 ELSE nextId
                    /\ console' = Append(console,
                                     IF ok THEN "Created " \o objectType
                                     ELSE "Failed to Create Schema " \o objectSchema.name)
                    /\ meta' = RecordIfCreated(meta, objectType, objectTypeId)
    /\ i' = i + 1
    /\ UNCHANGED <<cmd, files, pc, failure, j, updatedProperties, currentProperties,
                   toDelete, toCreate, toUpdate, run, cmpVars>>

\* a variant in which a rejected association POST is not caught
createAssociation_Propagates ==
    /\ pc = "loop" /\ cmd = "create" /\ AssociationsDue(i) /\ j <= Len(allAssociations)
    /\ LET a    == allAssociations[j]
           body == [name             |-> a.name,
                    fromObjectTypeId |-> Resolve(meta, a.fromObjectTypeId),
                    toObjectTypeId   |-> Resolve(meta, a.toObjectTypeId)]
       IN  \E ok \in BOOLEAN :
             /\ requests' = Append(requests,
                    Req("POST", AssociationsUrl(body.fromObjectTypeId), body, ok, NoBody))
             /\ pc' = IF ok THEN pc ELSE "crashed"
             /\ failure' = IF ok THEN failure ELSE "RequestError"
    /\ j' = j + 1
    /\ UNCHANGED <<cmd, files, remote, nextId, meta, i, allAssociations, console,
                   updatedProperties, currentProperties, toDelete, toCreate, toUpdate,
                   run, cmpVars>>

\* one iteration of the loop over allAssociations; a rejected POST is caught
createAssociation ==
    /\ pc = "loop" /\ cmd = "create" /\ AssociationsDue(i) /\ j <= Len(allAssociations)
    /\ LET a    == allAssociations[j]
           body == [name             |-> a.name,
                    fromObjectTypeId |-> Resolve(meta, a.fromObjectTypeId),
                    toObjectTypeId   |-> Resolve(meta, a.toObjectTypeId)]
       IN  \E ok \in BOOLEAN :
             /\ requests' = Append(requests,
                    Req("POST", AssociationsUrl(body.fromObjectTypeId), body, ok, NoBody))
             /\ console' = IF ok THEN console
                           ELSE Append(console, "Failed to Create Association " \o a.name)
    /\ j' = j + 1
    /\ UNCHANGED <<cmd, files, remote, nextId, meta, pc, failure, i, allAssociations,
                   updatedProperties, currentProperties, toDelete, toCreate, toUpdate,
                   run, cmpVars>>

(***************************************************************************)
(* deleteSchemas and deleteSchema.                                         *)
(***************************************************************************)
\* a variant that skips the file the index has no record of
deleteLookupThrows_Skips ==
    /\ pc = "loop" /\ cmd = "delete" /\ i <= Len(files)
    /\ files[i].objectType \notin DOMAIN meta
    /\ i' = i + 1
    /\ UNCHANGED <<cmd, files, remote, nextId, meta, pc, failure, j, allAssociations,
                   updatedProperties, currentProperties, toDelete, toCreate, toUpdate,
                   requests, console, run, cmpVars>>

\* meta[objectType] is undefined: reading .objectTypeId throws, nothing catches it
deleteLookupThrows ==
    /\ pc = "loop" /\ cmd = "delete" /\ i <= Len(files)
    /\ files[i].objectType \notin DOMAIN meta
    /\ pc' = "crashed" /\ failure' = "TypeError"
    /\ UNCHANGED <<cmd, files, remote, nextId, meta, i, j, allAssociations,
                   updatedProperties, currentProperties, toDelete, toCreate, toUpdate,
                   requests, console, run, cmpVars>>

\* a variant that goes on to the purge whatever the soft-delete answered
deleteSchema_PurgesAnyway ==
    /\ pc = "loop" /\ cmd = "delete" /\ i <= Len(files)
    /\ files[i].objectType \in DOMAIN meta
    /\ LET objectTypeId == meta[files[i].objectType].objectTypeId
       IN  \E ok \in BOOLEAN :
             /\ requests' = Append(requests,
                    Req("DELETE", SchemaUrl(objectTypeId), NoBody, ok, NoBody))
             /\ remote' = IF ok /\ objectTypeId \in DOMAIN remote
                          THEN [remote EXCEPT ![objectTypeId].state = "archived"]
                          ELSE remote
             /\ pc' = "purging"
    /\ UNCHANGED <<cmd, files, nextId, meta, failure, i, j, console, allAssociations,
                   updatedProperties, currentProperties, toDelete, toCreate, toUpdate,
                   run, cmpVars>>

\* the first request of deleteSchema
deleteSchema ==
    /\ pc = "loop" /\ cmd = "delete" /\ i <= Len(files)
    /\ files[i].objectType \in DOMAIN meta
    /\ LET objectTypeId == meta[files[i].objectType].objectTypeId
       IN  \E ok \in BOOLEAN :
             /\ requests' = Append(requests,
                    Req("DELETE", SchemaUrl(objectTypeId), NoBody, ok, NoBody))
             /\ IF ok
                THEN /\ remote' = IF objectTypeId \in DOMAIN remote
                                  THEN [remote EXCEPT ![objectTypeId].state = "archived"]
                                  ELSE remote
                     /\ pc' = "purging"
                     /\ UNCHANGED <<i, console>>
                ELSE /\ console' = console \o
                                     <<"error", "Failed to Delete Schema " \o objectTypeId>>
                     /\ i' = i + 1
                     /\ UNCHANGED <<remote, pc>>
    /\ UNCHANGED <<cmd, files, nextId, meta, failure, j, allAssociations,
                   updatedProperties, currentProperties, toDelete, toCreate, toUpdate,
                   run, cmpVars>>

\* the second request of deleteSchema, and the log of deleteSchemas
purgeSchema ==
    /\ pc = "purging"
    /\ LET objectType   == files[i].objectType
           objectTypeId == meta[objectType].objectTypeId
       IN  \E ok \in BOOLEAN :
             /\ requests' = Append(requests,
                    Req("DELETE", PurgeUrl(objectTypeId), NoBody, ok, NoBody))
             /\ remote' = IF ok
                          THEN [id \in DOMAIN remote \ {objectTypeId} |-> remote[id]]
                          ELSE remote
             /\ console' = IF ok THEN Append(console, "Deleted " \o objectType)
                           ELSE console \o
                                  <<"error", "Failed to Delete Schema " \o objectTypeId>>
    /\ pc' = "loop"
    /\ i' = i + 1
    /\ UNCHANGED <<cmd, files, nextId, meta, failure, j, allAssociations,
                   updatedProperties, currentProperties, toDelete, toCreate, toUpdate,
                   run, cmpVars>>

(***************************************************************************)
(* Inputs: the property lists of one object type.                          *)
(***************************************************************************)
OptA == [label |-> "A", value |-> "a"]
OptB == [label |-> "B", value |-> "b"]

\* the names: two platform-managed ones, one that only contains "hs_", two plain
PropertyNames == <<"hs_object_id", "hubspot_owner_id", "legacy_field", "maths_score", "status">>

NameRank(name) == CHOOSE n \in 1..Len(PropertyNames) : PropertyNames[n] = name

\* "status" takes several shapes, the other names one
StatusShapes ==
    { Prop("status", <<"label">>, 1, Undefined),
      Prop("status", <<"label">>, 2, Undefined),
      Prop("status", <<"label", "options">>, 1, <<OptA, OptB>>),
      Prop("status", <<"label", "options">>, 1, <<OptB, OptA>>),
      Prop("status", <<"label", "options">>, 1, <<OptA>>) }

Properties ==
    { Prop(PropertyNames[n], <<"label">>, 1, Undefined) : n \in 1..(Len(PropertyNames) - 1) }
        \cup StatusShapes

DistinctNames(props) ==
    \A m, n \in 1..Len(props) : m # n => props[m].name # props[n].name

\* the properties of a local file: any order, no name twice
LocalPropertyLists == { l \in SeqsUpTo(Properties, MaxProps) : DistinctNames(l) }

\* the properties of a remote record: no name twice, listed in the registry's order
RemotePropertyLists ==
    { l \in LocalPropertyLists :
        \A n \in 1..(Len(l) - 1) : NameRank(l[n].name) < NameRank(l[n + 1].name) }

RemoteSchema(n, props) == [name |-> n, properties |-> props, state |-> "live"]

InitFlow ==
    /\ pc = "start" /\ failure = "" /\ run = 1 /\ meta = EmptyMap /\ i = 0 /\ j = 0
    /\ allAssociations = <<>> /\ updatedProperties = <<>> /\ currentProperties = <<>>
    /\ toDelete = <<>> /\ toCreate = <<>> /\ toUpdate = <<>>
    /\ requests = <<>> /\ console = <<>>
    /\ optA = <<>> /\ optB = <<>> /\ cmpOut = "none"

\* update of one file whose object type the registry may or may not hold
InitReconcile ==
    /\ InitFlow
    /\ cmd = "update"
    /\ nextId = 2
    /\ \E updated \in LocalPropertyLists :
         files = << [objectType |-> "deal", schema |-> LocalSchema("deal", updated)] >>
    /\ \/ remote = EmptyMap
       \/ \E current \in RemotePropertyLists :
            remote = ("2-1" :> RemoteSchema("deal", current))

NextReconcile ==
    \/ getExistingSchemas
    \/ updateSkip
    \/ updateSchema
    \/ deleteProperty
    \/ createProperty
    \/ patchProperty
    \/ finish
    \/ rerun

SpecReconcile == InitReconcile /\ [][NextReconcile]_vars

(***************************************************************************)
(* Inputs: batches of files.  The glob's files have distinct object type   *)
(* identifiers; the registry holds some object types before the command.   *)
(***************************************************************************)
MaxAssocs == 2     \* longest associations list of a file

ObjectTypes == {"company", "deal"}

\* what a file may name as association target: an object type of the batch, one
\* the registry holds already, and the id of a standard object
AssociationTargets == {"deal", "ticket", "0-1"}

RegisteredId(name) ==
    CASE name = "company" -> "2-1"
      [] name = "deal"    -> "2-2"
      [] name = "ticket"  -> "2-3"

\* the registry holding the object types of held, each with its property list
Registry(held) ==
    [id \in { RegisteredId(n) : n \in DOMAIN held } |->
        LET n == CHOOSE x \in DOMAIN held : RegisteredId(x) = id
        IN  RemoteSchema(n, held[n])]

\* all batches of files drawn from fileSet, no identifier twice
Batches(fileSet) ==
    { b \in SeqsUpTo(fileSet, Cardinality(ObjectTypes)) :
        \A m, n \in 1..Len(b) : m # n => b[m].objectType # b[n].objectType }

File(objectType, schema) == [objectType |-> objectType, schema |-> schema]

\* the associations lists of a file: each target named once
AssociationLists ==
    { a \in SeqsUpTo(AssociationTargets, MaxAssocs) :
        \A m, n \in 1..Len(a) : m # n => a[m] # a[n] }

\* a schema file for create: with no associations key, or with a list of targets
CreateFiles ==
    { File(t, LocalSchema(t, <<>>)) : t \in ObjectTypes }
      \cup { File(t, [LocalSchema(t, <<>>) EXCEPT !.keys = @ \cup {"associations"},
                                                 !.associations = a]) :
               t \in ObjectTypes, a \in AssociationLists }

InitCreate ==
    /\ InitFlow
    /\ cmd = "create"
    /\ nextId = 4
    /\ files \in Batches(CreateFiles)
    /\ \/ remote = Registry("ticket" :> <<>>)
       \/ remote = Registry(("ticket" :> <<>>) @@ ("deal" :> <<>>))

InitDelete ==
    /\ InitFlow
    /\ cmd = "delete"
    /\ nextId = 4
    /\ files \in Batches({ File(t, LocalSchema(t, <<>>)) : t \in ObjectTypes })
    /\ \E held \in SUBSET ObjectTypes : remote = Registry([n \in held |-> <<>>])

Status1 == Prop("status", <<"label">>, 1, Undefined)
Status2 == Prop("status", <<"label">>, 2, Undefined)
StatusA == Prop("status", <<"label", "options">>, 1, <<OptA>>)
Legacy1 == Prop("legacy_field", <<"label">>, 1, Undefined)
Legacy2 == Prop("legacy_field", <<"label">>, 2, Undefined)
Region1 == Prop("region", <<"label">>, 1, Undefined)

BatchLocalLists == { <<>>, <<Status2, Legacy2>>, <<Status2, Region1>>, <<StatusA>> }

BatchRemoteLists == { <<>>, <<Legacy1, Status1>> }

InitUpdate ==
    /\ InitFlow
    /\ cmd = "update"
    /\ nextId = 4
    /\ files \in Batches({ File(t, LocalSchema(t, l)) : t \in ObjectTypes, l \in BatchLocalLists })
    /\ \E held \in SUBSET ObjectTypes :
         \E lists \in [held -> BatchRemoteLists] : remote = Registry(lists)

Init == InitCreate \/ InitDelete \/ InitUpdate

Next ==
    \/ getExistingSchemas
    \/ createSchema
    \/ createAssociation
    \/ deleteLookupThrows
    \/ deleteSchema
    \/ purgeSchema
    \/ updateSkip
    \/ updateSchema
    \/ deleteProperty
    \/ createProperty
    \/ patchProperty
    \/ finish

Spec == Init /\ [][Next]_vars

(***************************************************************************)
(* Vocabulary of the properties below.                                     *)
(***************************************************************************)
HasReservedPrefix(name) == StartsWith(name, "hs_") \/ StartsWith(name, "hubspot_")

IsPropertyRequest(r, method) ==
    r.method = method /\ r.url[1] = "properties"

\* the name in /properties/v2/{id}/properties/named/{name}
NamedIn(r) == r.url[6]

\* the requests of the running invocation
RequestsOfRun(method) ==
    { n \in 1..Len(requests) :
        IsPropertyRequest(requests[n], method) /\ requests[n].run = run }

\* the set of {label, value} pairs of an option list
OptionPairs(opts) == { <<opts[n].label, opts[n].value>> : n \in 1..Len(opts) }

\* a field of the updated property matches the same-named field of the current one
FieldMatches(u, e, k) ==
    /\ HasKey(e, k)
    /\ IF k = "options" THEN OptionPairs(u.options) = OptionPairs(e.options)
                        ELSE u[k] = e[k]

EveryFieldMatches(u, e) == \A n \in 1..Len(u.keys) : FieldMatches(u, e, u.keys[n])

\* updateSchema has run its filters for the file of this invocation
Reconciled == pc \in {"deleting", "creating", "patching", "loop", "done"} /\ i >= 1
                 /\ (pc = "loop" => i > 1)

(***************************************************************************)
(* C1.  No property of current whose name starts with hs_ or hubspot_ is   *)
(* ever in toDelete, and no property DELETE request is ever issued for     *)
(* such a name, also when the property is absent from updated.             *)
(***************************************************************************)
C1_ReservedPrefixNeverDeleted ==
    /\ \A n \in 1..Len(toDelete) : ~HasReservedPrefix(toDelete[n].name)
    /\ \A n \in 1..Len(requests) :
          IsPropertyRequest(requests[n], "DELETE") => ~HasReservedPrefix(NamedIn(requests[n]))

\* an update that deleted something while a prefixed property of current was
\* absent from updated
C1_Witness ==
    /\ pc = "done" /\ RequestsOfRun("DELETE") # {}
    /\ \E n \in 1..Len(currentProperties) :
          /\ HasReservedPrefix(currentProperties[n].name)
          /\ FindByName(updatedProperties, currentProperties[n].name) = 0

(***************************************************************************)
(* C2.  toDelete holds exactly the properties of current whose name does   *)
(* not begin with hs_ or hubspot_ and that updated does not name, and once *)
(* the delete loop is through exactly one DELETE request was issued for    *)
(* each of them.                                                           *)
(***************************************************************************)
C2_ToDeleteIsEveryUnprefixedAbsent ==
    Reconciled =>
      /\ toDelete = SelectSeq(currentProperties,
                        LAMBDA p : ~HasReservedPrefix(p.name)
                                   /\ FindByName(updatedProperties, p.name) = 0)
      /\ pc # "deleting" =>
            \A n \in 1..Len(toDelete) :
               Cardinality({ m \in RequestsOfRun("DELETE") :
                               NamedIn(requests[m]) = toDelete[n].name }) = 1

(***************************************************************************)
(* C3.  For a property present by name in both lists whose non-list fields *)
(* are all identical: it is in toUpdate if and only if some list-valued    *)
(* field of the updated property does not hold exactly the set of          *)
(* {label, value} pairs of the same-named field of the current property.   *)
(***************************************************************************)
NonListFieldsIdentical(u, e) ==
    \A n \in 1..Len(u.keys) : u.keys[n] # "options" => FieldMatches(u, e, u.keys[n])

SomeListFieldDiffers(u, e) ==
    \E n \in 1..Len(u.keys) : u.keys[n] = "options" /\ ~FieldMatches(u, e, u.keys[n])

C3_ListFieldsDecideUpdate ==
    \A n \in 1..Len(updatedProperties) :
        LET u == updatedProperties[n]
            e == FindByName(currentProperties, u.name)
        IN  (e # 0 /\ NonListFieldsIdentical(u, currentProperties[e])) =>
               (u \in Range(toUpdate) <=> SomeListFieldDiffers(u, currentProperties[e]))

(***************************************************************************)
(* C4.  A property present by name in both lists, every field of which     *)
(* matches the same-named field of the current property (lists as sets of  *)
(* {label, value} pairs, other values by identity), is never in toUpdate   *)
(* and no PATCH request is issued for it.                                  *)
(***************************************************************************)
C4_MatchingNeverUpdated ==
    \A n \in 1..Len(updatedProperties) :
        LET u == updatedProperties[n]
            e == FindByName(currentProperties, u.name)
        IN  (e # 0 /\ EveryFieldMatches(u, currentProperties[e])) =>
               /\ u \notin Range(toUpdate)
               /\ \A m \in RequestsOfRun("PATCH") : NamedIn(requests[m]) # u.name

\* an update that left alone a property whose option list is the current one
\* reordered
C4_Witness ==
    /\ pc = "done"
    /\ \E n \in 1..Len(updatedProperties) :
          LET u == updatedProperties[n]
              e == FindByName(currentProperties, u.name)
          IN  /\ e # 0 /\ HasKey(u, "options")
              /\ EveryFieldMatches(u, currentProperties[e])
              /\ u.options # currentProperties[e].options

(***************************************************************************)
(* C5.  Idempotence of update: when every remote request of a first run    *)
(* was applied, a second run with the same file against the resulting      *)
(* registry computes empty toCreate, toUpdate and toDelete and issues no   *)
(* property DELETE, POST or PATCH request.                                 *)
(***************************************************************************)
AppliedInRun(r) == \A n \in 1..Len(requests) : requests[n].run = r => requests[n].ok

\* the second run is past the filters of updateSchema
SecondRunReconciled ==
    /\ run = 2 /\ AppliedInRun(1)
    /\ \E n \in 1..Len(requests) :
          requests[n].run = 2 /\ requests[n].method = "GET" /\ requests[n].ok
    /\ files[1].objectType \in DOMAIN meta
    /\ ~(pc = "loop" /\ i = 1)

C5_SecondRunIsEmpty ==
    SecondRunReconciled =>
        /\ pc # "crashed"
        /\ toDelete = <<>> /\ toCreate = <<>> /\ toUpdate = <<>>
        /\ RequestsOfRun("DELETE") \cup RequestsOfRun("POST") \cup RequestsOfRun("PATCH") = {}

(***************************************************************************)
(* validateOptions on its own: the two option lists are drawn from all     *)
(* lists of at most MaxOpts options.                                       *)
(***************************************************************************)
Options == [label : {"A", "B"}, value : {"a", "b"}]

OptionLists == SeqsUpTo(Options, MaxOpts)

InitCompare ==
    /\ cmd = "none" /\ files = <<>> /\ remote = EmptyMap /\ nextId = 1
    /\ pc = "idle" /\ failure = "" /\ run = 1 /\ meta = EmptyMap /\ i = 0 /\ j = 0
    /\ allAssociations = <<>> /\ updatedProperties = <<>> /\ currentProperties = <<>>
    /\ toDelete = <<>> /\ toCreate = <<>> /\ toUpdate = <<>>
    /\ requests = <<>> /\ console = <<>>
    /\ optA \in OptionLists /\ optB \in OptionLists
    /\ cmpOut = "none"

compareOptions ==
    /\ cmpOut = "none"
    /\ cmpOut' = IF validateOptions(optA, optB) THEN "equal" ELSE "different"
    /\ UNCHANGED <<flowVars, optA, optB>>

NextCompare == compareOptions

SpecCompare == InitCompare /\ [][NextCompare]_vars

(***************************************************************************)
(* C6.  validateOptions(A, B) equals validateOptions(B, A) for all option  *)
(* lists A and B, and validateOptions(A, A) is true.                       *)
(***************************************************************************)
C6_ValidateOptionsSymmetricReflexive ==
    cmpOut # "none" =>
        /\ (cmpOut = "equal") <=> validateOptions(optB, optA)
        /\ optA = optB => cmpOut = "equal"

\* two different lists found equal: one is the other reordered or repeated
C6_Witness == cmpOut = "equal" /\ optA # optB

(***************************************************************************)
(* Vocabulary of the create flow's properties.                             *)
(***************************************************************************)
IsSchemaCreate(r) == r.method = "POST" /\ r.url = SchemasUrl

IsAssociationPost(r) == r.method = "POST" /\ Len(r.url) = 5 /\ r.url[5] = "associations"

CreatePositions == { n \in 1..Len(requests) : IsSchemaCreate(requests[n]) }

AssociationPositions == { n \in 1..Len(requests) : IsAssociationPost(requests[n]) }

\* the position in requests of the k-th create request
CreateRequestOf(k) ==
    CHOOSE n \in CreatePositions : Cardinality({ m \in CreatePositions : m <= n }) = k

\* the declared association that the association request at position n submits
DeclaredAt(n) == allAssociations[Cardinality({ m \in AssociationPositions : m <= n })]

\* the index as getExistingSchemas returned it
Fetched == requests[1].data

CreateSucceeded(k) == k <= Cardinality(CreatePositions) /\ requests[CreateRequestOf(k)].ok

(***************************************************************************)
(* C7.  No association request is submitted before the create of every     *)
(* file of the batch has been attempted, whatever the order of the files   *)
(* and whichever creates fail.                                             *)
(***************************************************************************)
C7_AssociationsAfterAllCreates ==
    \A n \in AssociationPositions :
        Cardinality({ m \in CreatePositions : m < n }) = Len(files)

\* a finished create of two files, the first of which declared an association
\* and failed to be created
C7_Witness ==
    /\ cmd = "create" /\ pc = "done" /\ Len(files) = 2
    /\ AssociationPositions # {}
    /\ allAssociations[1].fromObjectTypeId = files[1].objectType
    /\ ~CreateSucceeded(1)

(***************************************************************************)
(* C8.  Each submitted association carries the name built from the local   *)
(* identifiers, and each of its two ends is the index's objectTypeId when  *)
(* the identifier is a key of the index and the identifier itself when it  *)
(* is not; for an object type created in this batch that id is the one its *)
(* create newly assigned, in whatever order the files come.                *)
(***************************************************************************)
ResolvedEnd(identifier) ==
    IF identifier \in DOMAIN meta THEN meta[identifier].objectTypeId ELSE identifier

C8_AssociationEndsResolved ==
    \A n \in AssociationPositions :
        LET a == DeclaredAt(n)
            b == requests[n].body
        IN  /\ b.name = a.fromObjectTypeId \o "_to_" \o a.toObjectTypeId
            /\ b.fromObjectTypeId = ResolvedEnd(a.fromObjectTypeId)
            /\ b.toObjectTypeId = ResolvedEnd(a.toObjectTypeId)
            /\ \A k \in 1..Len(files) :
                  CreateSucceeded(k) =>
                    LET newId == requests[CreateRequestOf(k)].data.objectTypeId
                    IN  /\ a.fromObjectTypeId = files[k].objectType => b.fromObjectTypeId = newId
                        /\ a.toObjectTypeId = files[k].objectType => b.toObjectTypeId = newId

\* the first file names the second as target, both are created, and the
\* association is submitted with the two new ids
C8_Witness ==
    /\ cmd = "create" /\ pc = "done" /\ Len(files) = 2
    /\ CreateSucceeded(1) /\ CreateSucceeded(2)
    /\ \E n \in AssociationPositions :
          /\ DeclaredAt(n).fromObjectTypeId = files[1].objectType
          /\ DeclaredAt(n).toObjectTypeId = files[2].objectType
          /\ requests[n].body.toObjectTypeId = requests[CreateRequestOf(2)].data.objectTypeId
          /\ requests[n].body.toObjectTypeId # files[2].objectType

(***************************************************************************)
(* C9.  A failed create yields null and does not abort the batch: every    *)
(* file has its create attempted exactly once, and the index entry of an   *)
(* identifier is written with the new objectTypeId if and only if that     *)
(* file's create succeeded; a failed create leaves the index as it was.    *)
(***************************************************************************)
C9_FailedCreateSkipsOnlyItsFile ==
    cmd = "create" =>
      /\ pc = "crashed" => i = 0
      /\ pc = "done" => Cardinality(CreatePositions) = Len(files)
      /\ pc \in {"loop", "done"} =>
            /\ Cardinality(CreatePositions) = i - 1
            /\ \A k \in 1..(i - 1) :
                  LET r  == requests[CreateRequestOf(k)]
                      ot == files[k].objectType
                  IN  /\ r.body = pickRest(files[k].schema, "associations")
                      /\ IF r.ok
                         THEN /\ ot \in DOMAIN meta
                              /\ meta[ot].keys = {"objectTypeId"}
                              /\ meta[ot].objectTypeId = r.data.objectTypeId
                         ELSE /\ ot \in DOMAIN meta <=> ot \in DOMAIN Fetched
                              /\ ot \in DOMAIN meta => meta[ot] = Fetched[ot]

\* a finished create of two files: the first create failed, the second succeeded
C9_Witness ==
    /\ cmd = "create" /\ pc = "done" /\ Len(files) = 2
    /\ ~CreateSucceeded(1) /\ CreateSucceeded(2)

(***************************************************************************)
(* C10.  In each flow a failed item never keeps a sibling from being       *)
(* attempted: whatever remote failures occur (schema create, two-step      *)
(* delete, property create, property delete), the command runs to          *)
(* completion over all items of the batch.                                 *)
(***************************************************************************)
C10_EveryItemAttempted ==
    (pc \in {"done", "crashed"} /\ i >= 1 /\ failure # "TypeError") => i > Len(files)

(***************************************************************************)
(* Vocabulary of the delete flow's properties.                             *)
(***************************************************************************)
IsSoftDelete(r) == r.method = "DELETE" /\ Len(r.url) = 4 /\ r.url[3] = "schemas"

IsPurge(r) == r.method = "DELETE" /\ Len(r.url) = 5 /\ r.url[5] = "purge"

\* the positions in requests of the soft-deletes and of the purges of an id
SoftDeletesOf(id) == { n \in 1..Len(requests) : IsSoftDelete(requests[n]) /\ requests[n].url[4] = id }

PurgesOf(id) == { n \in 1..Len(requests) : IsPurge(requests[n]) /\ requests[n].url[4] = id }

\* the files of the batch that the fetched index has no record of
MissingTargets == { k \in 1..Len(files) : files[k].objectType \notin DOMAIN Fetched }

FirstMissing == CHOOSE k \in MissingTargets : \A m \in MissingTargets : k <= m

\* the state of the registry shows what the two requests for id did
OutcomeKept(id) ==
    LET soft  == { n \in SoftDeletesOf(id) : requests[n].ok }
        purge == { n \in PurgesOf(id) : requests[n].ok }
    IN  IF soft = {} THEN id \in DOMAIN remote /\ remote[id].state = "live"
        ELSE IF purge = {} THEN id \in DOMAIN remote /\ remote[id].state = "archived"
        ELSE id \notin DOMAIN remote

(***************************************************************************)
(* C11.  In the delete flow an identifier absent from the index ends the   *)
(* command with an unhandled lookup failure instead of a skip: no delete   *)
(* request is issued for it, no later file of the batch is attempted, and  *)
(* the files before it keep the outcome of their two requests.             *)
(***************************************************************************)
C11_MissingDeleteTargetTerminates ==
    (cmd = "delete" /\ i >= 1 /\ MissingTargets # {}) =>
        /\ pc # "done"
        /\ i <= FirstMissing
        /\ pc = "crashed" => failure = "TypeError" /\ i = FirstMissing
        /\ \A n \in 2..Len(requests) :
              \E k \in 1..(FirstMissing - 1) :
                 requests[n].url[4] = Fetched[files[k].objectType].objectTypeId
        /\ \A k \in 1..(i - 1) : OutcomeKept(Fetched[files[k].objectType].objectTypeId)

\* the second file has no record: the command ended there, after the first
\* file was deleted and purged
C11_Witness ==
    /\ cmd = "delete" /\ pc = "crashed" /\ failure = "TypeError"
    /\ Len(files) = 2 /\ i = 2 /\ MissingTargets = {2}
    /\ Len(requests) = 3 /\ requests[2].ok /\ requests[3].ok

\* the id the delete flow looks up for the k-th file
TargetId(k) == Fetched[files[k].objectType].objectTypeId

\* deleteSchemas logs "Deleted ..." exactly when deleteSchema returned true
ReturnedTrue(k) == ("Deleted " \o files[k].objectType) \in Range(console)

ReturnedFalse(k) == ("Failed to Delete Schema " \o TargetId(k)) \in Range(console)

(***************************************************************************)
(* C12.  deleteSchema issues the soft-delete first and the purge only      *)
(* after the soft-delete succeeded; it returns true if and only if both    *)
(* requests succeeded; when the soft-delete succeeds and the purge fails   *)
(* it returns false, issues no further request for that object type and    *)
(* leaves it soft-deleted but not purged.                                  *)
(***************************************************************************)
C12_PurgeOnlyAfterSoftDelete ==
    (cmd = "delete" /\ i >= 1) =>
        /\ \A n \in 1..Len(requests) :
              IsPurge(requests[n]) =>
                 \E m \in 1..(n - 1) : /\ IsSoftDelete(requests[m]) /\ requests[m].ok
                                       /\ requests[m].url[4] = requests[n].url[4]
        /\ \A k \in 1..(i - 1) :
              LET id   == TargetId(k)
                  soft == SoftDeletesOf(id)
                  prg  == PurgesOf(id)
                  both == /\ \A n \in soft : requests[n].ok
                          /\ prg # {} /\ \A n \in prg : requests[n].ok
              IN  /\ Cardinality(soft) = 1
                  /\ Cardinality(prg) = IF \A n \in soft : requests[n].ok THEN 1 ELSE 0
                  /\ ReturnedTrue(k) <=> both
                  /\ ReturnedFalse(k) <=> ~both
                  /\ ((\A n \in soft : requests[n].ok) /\ (\E n \in prg : ~requests[n].ok)) =>
                        id \in DOMAIN remote /\ remote[id].state = "archived"

\* a finished delete in which a soft-delete succeeded and its purge failed
C12_Witness ==
    /\ cmd = "delete" /\ pc = "done"
    /\ \E k \in 1..Len(files) :
          /\ \E n \in SoftDeletesOf(TargetId(k)) : requests[n].ok
          /\ \E n \in PurgesOf(TargetId(k)) : ~requests[n].ok
          /\ ReturnedFalse(k) /\ ~ReturnedTrue(k)
          /\ remote[TargetId(k)].state = "archived"

(***************************************************************************)
(* Vocabulary of the update flow's properties.                             *)
(***************************************************************************)
\* the loop of updateSchemas stands at a file the index has no record of
AtAbsentRecord ==
    /\ cmd = "update" /\ pc = "loop" /\ i <= Len(files)
    /\ files[i].objectType \notin DOMAIN meta

\* every request after the GET targets the id of a file the index has a record of
OnlyRecordedTargeted ==
    (cmd = "update" /\ i >= 1) =>
        \A n \in 2..Len(requests) :
            \E k \in 1..Len(files) :
                /\ files[k].objectType \in DOMAIN Fetched
                /\ requests[n].url[3] = TargetId(k)

(***************************************************************************)
(* C13.  In the update flow a file whose identifier has no record in the   *)
(* index is skipped: no property DELETE, POST or PATCH request is issued   *)
(* for it, the registry is unchanged by it, and the loop goes on to the    *)
(* next file.                                                              *)
(***************************************************************************)
C13_AbsentRecordIsSkipped ==
    /\ []OnlyRecordedTargeted
    /\ [][AtAbsentRecord =>
            /\ requests' = requests /\ remote' = remote
            /\ pc' = "loop" /\ i' = i + 1]_vars

\* a finished update of two files: the first was skipped, the second had
\* property requests issued
C13_Witness ==
    /\ cmd = "update" /\ pc = "done" /\ Len(files) = 2
    /\ files[1].objectType \notin DOMAIN Fetched
    /\ files[2].objectType \in DOMAIN Fetched
    /\ ("Object Type " \o files[1].objectType \o " does not exist to be updated.")
          \in Range(console)
    /\ Len(requests) > 1

\* the positions in requests of the property requests of one method for one id
PropertyRequestsFor(method, id) ==
    { n \in 1..Len(requests) :
        IsPropertyRequest(requests[n], method) /\ requests[n].url[3] = id }

(***************************************************************************)
(* C14.  Within the update of one object type the property operations are *)
(* issued in the order delete, create, update: every DELETE of a toDelete  *)
(* property is issued before any POST of a toCreate property, and every    *)
(* POST before any PATCH of a toUpdate property.                           *)
(***************************************************************************)
C14_DeleteThenCreateThenUpdate ==
    (cmd = "update" /\ i >= 1) =>
        /\ \A k \in 1..Len(files) :
              files[k].objectType \in DOMAIN Fetched =>
                 LET id == TargetId(k)
                 IN  /\ \A d \in PropertyRequestsFor("DELETE", id) :
                          \A c \in PropertyRequestsFor("POST", id) \cup PropertyRequestsFor("PATCH", id) :
                             d < c
                     /\ \A c \in PropertyRequestsFor("POST", id) :
                          \A u \in PropertyRequestsFor("PATCH", id) : c < u
        /\ pc \in {"creating", "patching"} =>
              \A n \in 1..Len(toDelete) :
                 \E d \in PropertyRequestsFor("DELETE", currentSchema.objectTypeId) :
                    NamedIn(requests[d]) = toDelete[n].name
        /\ pc = "patching" =>
              \A n \in 1..Len(toCreate) :
                 \E c \in PropertyRequestsFor("POST", currentSchema.objectTypeId) :
                    requests[c].body = toCreate[n]

\* a finished update that deleted, created and patched properties of one
\* object type
C14_Witness ==
    /\ cmd = "update" /\ pc = "done"
    /\ \E k \in 1..Len(files) :
          /\ files[k].objectType \in DOMAIN Fetched
          /\ PropertyRequestsFor("DELETE", TargetId(k)) # {}
          /\ PropertyRequestsFor("POST", TargetId(k)) # {}
          /\ PropertyRequestsFor("PATCH", TargetId(k)) # {}

\* the targets the k-th file declares, none when it has no associations field
DeclaredTargets(k) ==
    IF "associations" \in files[k].schema.keys THEN files[k].schema.associations ELSE <<>>

\* the positions in requests of the association requests named objectType_to_target
AssociationRequestsNamed(objectType, target) ==
    { n \in AssociationPositions : requests[n].body.name = objectType \o "_to_" \o target }

(***************************************************************************)
(* C15.  In the create flow the associations field is removed from each    *)
(* loaded schema before submission: no create request body contains an     *)
(* associations field; a schema with no associations field contributes no  *)
(* association request, and a schema with targets t1..tn contributes       *)
(* exactly one association request per target.                             *)
(***************************************************************************)
C15_AssociationsStrippedAndSubmitted ==
    cmd = "create" =>
        /\ \A n \in CreatePositions : "associations" \notin requests[n].body.keys
        /\ pc = "done" =>
              \A k \in 1..Len(files) :
                 \A t \in AssociationTargets \cup ObjectTypes :
                    Cardinality(AssociationRequestsNamed(files[k].objectType, t))
                       = Cardinality({ m \in 1..Len(DeclaredTargets(k)) : DeclaredTargets(k)[m] = t })

\* a finished create of two files: one has no associations field, the other
\* declares two targets
C15_Witness ==
    /\ cmd = "create" /\ pc = "done" /\ Len(files) = 2
    /\ "associations" \notin files[1].schema.keys
    /\ Len(DeclaredTargets(2)) = 2
    /\ Cardinality(AssociationPositions) = 2

\* updateSchema has just returned for the file before the loop's position
JustUpdated ==
    /\ cmd = "update" /\ pc \in {"loop", "done"} /\ i > 1
    /\ files[i - 1].objectType \in DOMAIN Fetched

FailedPatches == { n \in 1..Len(requests) : IsPropertyRequest(requests[n], "PATCH") /\ ~requests[n].ok }

(***************************************************************************)
(* C16.  A failed property PATCH is caught and logged and does not stop    *)
(* the remaining property operations of the item: a PATCH is still issued  *)
(* for every other property of toUpdate, and the update flow goes on with  *)
(* the next file.                                                          *)
(***************************************************************************)
C16_FailedPatchIsCaught ==
    cmd = "update" =>
        /\ (pc = "crashed" /\ failure = "RequestError") =>
              requests[Len(requests)].method # "PATCH"
        /\ Cardinality({ n \in 1..Len(console) : console[n] = "error" })
              = Cardinality(FailedPatches)
        /\ JustUpdated =>
              \A n \in 1..Len(toUpdate) :
                 Cardinality({ m \in PropertyRequestsFor("PATCH", TargetId(i - 1)) :
                                 NamedIn(requests[m]) = toUpdate[n].name }) = 1

\* a finished update of two files: the first PATCH of the first file failed,
\* the second PATCH of that file and a request of the second file followed
C16_Witness ==
    /\ cmd = "update" /\ pc = "done" /\ Len(files) = 2
    /\ files[1].objectType \in DOMAIN Fetched /\ files[2].objectType \in DOMAIN Fetched
    /\ \E n \in FailedPatches :
          /\ requests[n].url[3] = TargetId(1)
          /\ \E m \in PropertyRequestsFor("PATCH", TargetId(1)) : m > n
          /\ \E m \in (n + 1)..Len(requests) : requests[m].url[3] = TargetId(2)

\* the positions in requests of the rejected property DELETEs and POSTs
FailedDeletesAndCreates ==
    { n \in 1..Len(requests) :
        /\ IsPropertyRequest(requests[n], "DELETE") \/ IsPropertyRequest(requests[n], "POST")
        /\ ~requests[n].ok }

(***************************************************************************)
(* C17.  A failed property DELETE or property POST propagates out of       *)
(* updateSchema: after it no further property DELETE, POST or PATCH        *)
(* request is issued for that object type in this run.                     *)
(***************************************************************************)
C17_FailedDeleteOrCreatePropagates ==
    cmd = "update" =>
        \A n \in FailedDeletesAndCreates :
            /\ pc = "crashed" /\ failure = "RequestError"
            /\ \A m \in (n + 1)..Len(requests) : requests[m].url[3] # requests[n].url[3]

\* a DELETE was rejected while the same object type still had a property to
\* create and one to update
C17_Witness ==
    /\ cmd = "update" /\ pc = "crashed"
    /\ \E n \in FailedDeletesAndCreates : IsPropertyRequest(requests[n], "DELETE")
    /\ toCreate # <<>> /\ toUpdate # <<>>

\* the names of the associations the first k files declare, in file order and
\* in the order of each file's list
RECURSIVE DeclaredNames(_)
DeclaredNames(k) ==
    IF k = 0 THEN <<>>
    ELSE DeclaredNames(k - 1) \o
           [m \in 1..Len(DeclaredTargets(k)) |->
               files[k].objectType \o "_to_" \o DeclaredTargets(k)[m]]

\* the position in requests of the k-th association request
AssociationRequestAt(k) ==
    CHOOSE n \in AssociationPositions :
        Cardinality({ m \in AssociationPositions : m <= n }) = k

(***************************************************************************)
(* C18.  In the create flow every association declared in any file of the  *)
(* batch is submitted exactly once in the association phase, in the order  *)
(* it was accumulated, whether or not the create of its source or target   *)
(* succeeded, and a failed submission does not keep the remaining          *)
(* associations from being submitted.                                      *)
(***************************************************************************)
C18_EveryAssociationSubmittedOnce ==
    (cmd = "create" /\ i >= 1) =>
        /\ pc \in {"loop", "done"}
        /\ Cardinality(AssociationPositions) = j - 1
        /\ j - 1 <= Len(DeclaredNames(Len(files)))
        /\ \A k \in 1..(j - 1) :
              requests[AssociationRequestAt(k)].body.name = DeclaredNames(Len(files))[k]
        /\ pc = "done" => j - 1 = Len(DeclaredNames(Len(files)))

\* a finished create whose first file failed to be created and declared two
\* associations: the first submission was rejected, the second followed
C18_Witness ==
    /\ cmd = "create" /\ pc = "done" /\ Len(files) >= 1
    /\ ~CreateSucceeded(1) /\ Len(DeclaredTargets(1)) = 2
    /\ Cardinality(AssociationPositions) >= 2
    /\ ~requests[AssociationRequestAt(1)].ok
    /\ requests[AssociationRequestAt(2)].body.name = DeclaredNames(1)[2]

\* the registry's property list of the object type of the k-th file
RemotePropertiesOf(k) == remote[TargetId(k)].properties

\* every local property is there with its declared fields, and what is there
\* besides has a name holding one of the two markers
Converged(local, stored) ==
    /\ \A n \in 1..Len(local) :
          LET e == FindByName(stored, local[n].name)
          IN  e # 0 /\ EveryFieldMatches(local[n], stored[e])
    /\ \A n \in 1..Len(stored) :
          FindByName(local, stored[n].name) = 0 =>
             Includes(stored[n].name, "hs_") \/ Includes(stored[n].name, "hubspot_")

\* the first run on the one file has ended and none of its requests was rejected
FirstRunEndedAllApplied ==
    /\ cmd = "update" /\ run = 1 /\ pc \in {"done", "crashed"} /\ i >= 1
    /\ files[1].objectType \in DOMAIN Fetched
    /\ AppliedInRun(1)

(***************************************************************************)
(* C19.  Convergence of update: when update has run on one object type     *)
(* and every remote property request succeeded and was applied, every      *)
(* property of the local schema exists remotely by name with every locally *)
(* declared field equal to the local value (option lists as sets), and     *)
(* every remote property whose name the local schema does not have is one  *)
(* whose name contains hs_ or hubspot_.                                    *)
(***************************************************************************)
C19_UpdateConverges ==
    FirstRunEndedAllApplied =>
        Converged(files[1].schema.properties, RemotePropertiesOf(1))

\* the files whose updateSchema has picked the properties off the index record
PickedFiles ==
    { k \in 1..Len(files) :
        /\ files[k].objectType \in DOMAIN Fetched
        /\ \/ k < i
           \/ k = i /\ pc \in {"deleting", "creating", "patching", "crashed"} }

\* the index differs from the fetched one only in the records of the picked
\* files, and there only by the properties list
IndexFramed ==
    (cmd = "update" /\ i >= 1) =>
        /\ DOMAIN meta = DOMAIN Fetched
        /\ \A ot \in DOMAIN meta :
              IF \E k \in PickedFiles : files[k].objectType = ot
              THEN /\ meta[ot].keys = Fetched[ot].keys \ {"properties"}
                   /\ meta[ot].name = Fetched[ot].name
                   /\ meta[ot].objectTypeId = Fetched[ot].objectTypeId
              ELSE meta[ot] = Fetched[ot]

(***************************************************************************)
(* C20.  Frame of update on the index: reconciling one file changes no     *)
(* index entry other than the record of that file's identifier, and on     *)
(* that record it removes the properties list and leaves name and          *)
(* objectTypeId unchanged, so the property requests of that item all       *)
(* target the objectTypeId fetched at the start of the run.                *)
(***************************************************************************)
C20_UpdateFramesIndex ==
    /\ []IndexFramed
    /\ [][(cmd = "update" /\ pc # "start" /\ requests' # requests) =>
            requests'[Len(requests')].url[3] = Fetched[files[i].objectType].objectTypeId]_vars

\* a finished update of two files, both reconciled with property requests
C20_Witness ==
    /\ cmd = "update" /\ pc = "done" /\ Len(files) = 2
    /\ PickedFiles = {1, 2}
    /\ \E n \in 2..Len(requests) : requests[n].url[3] = TargetId(1)
    /\ \E n \in 2..Len(requests) : requests[n].url[3] = TargetId(2)
    /\ \A ot \in DOMAIN meta : "properties" \notin meta[ot].keys

====
